---- MODULE Spec2Model ----
(***************************************************************************)
(* GreenPulse: the poll / aggregate / broadcast loop (backend/main.py,     *)
(* backend/pathway_stream.py), the subscriber registry, the active-city    *)
(* selection and the lazily initialised retrieval backend (backend/rag.py).*)
(*                                                                         *)
(* The asyncio event loop runs one coroutine at a time and switches only   *)
(* at an await, so every action of a coroutine is the code between two     *)
(* awaits.  The synchronous endpoints (select_cities, preload_rag) and the *)
(* preload / initialisation threads run in OS threads and may be switched  *)
(* between any two accesses of a module global.                            *)
(***************************************************************************)
EXTENDS Integers, Sequences, FiniteSets, TLC

\* ------------------------------------------------------------------ bounds
\* Poll cycles explored (the loop itself never ends: stream() is `while True`).
MaxCycles == 2
\* WebSocket connections ever accepted.
MaxSubs == 2
\* POST /api/cities/select requests served, each in a thread of the pool.
MaxSel == 2
\* Threads that call get_rag_lazy: the startup preload thread (thread 1) and
\* the threads started by POST /api/rag/preload.
MaxThreads == 1
\* Chunks the generation call streams before it ends or fails.
MaxChunks == 1
\* Words of the canned fallback text (_mock_stream yields one per word).
MockWords == 2

\* ------------------------------------------------------- program constants
\* query_stream: timeout = 180 (seconds)
Timeout == 180
\* query_stream: check_interval = 1.0 (seconds)
CheckInterval == 1
\* query_stream: a progress fragment every 5 seconds
ProgressEvery == 5
\* query_stream: last_progress = -10
FirstProgress == -10

\* ------------------------------------------------------- configuration data
\* CITIES_CONFIG, reduced to two of its cities and to the number of stations
\* of each (the source lists 4 stations for Delhi and 2 for Prayagraj; the
\* model keeps 2 and 1 so that one cycle is three station fetches).
CITIES_CONFIG == [Delhi |-> 2, Prayagraj |-> 1]

\* list(CITIES_CONFIG.keys()): dict order is insertion order.
ConfigKeys == <<"Delhi", "Prayagraj">>

\* city_name[:2].upper()
Abbrev(c) ==
    CASE c = "Delhi" -> "DE"
      [] c = "Mumbai" -> "MU"
      [] c = "Kolkata" -> "KO"
      [] c = "Chennai" -> "CH"
      [] c = "Prayagraj" -> "PR"
      [] OTHER -> "??"

\* Every key of the source's CITIES_CONFIG (the model polls two of them).
AllCities == {"Delhi", "Mumbai", "Kolkata", "Chennai", "Prayagraj"}

\* What one station fetch can come back with (fetch_station's branches).
Responses == {"ok", "http_error", "status_not_ok", "exception"}

\* The city lists a selection request carries: known names, an unknown name,
\* both, and a reordering.
Requests == {<<"Delhi">>, <<"Atlantis">>, <<"Prayagraj", "Atlantis">>,
             <<"Prayagraj", "Delhi">>}

Range(s) == {s[i] : i \in 1..Len(s)}

VARIABLES
    latest,            \* main._latest
    ws_clients,        \* main._ws_clients (a list)
    active_cities,     \* main._active_cities
    processor_cities,  \* _processor.cities
    connector_cities,  \* the WAQIConnector's cities, bound once in start()
    loop_pc,           \* where stream_loop is suspended: "fetch", "broadcast", "sleep"
                       \* ("crashed": the task ended with an exception)
    cycle,             \* number of the poll cycle (iteration of stream())
    fetch_list,        \* the (city, index) pairs fetch_all iterates this cycle
    fetch_k,           \* position in fetch_list of the fetch in flight
    all_data,          \* fetch_all's all_data
    pass_copy,         \* list(_ws_clients) taken by the broadcast pass
    pass_i,            \* position of the pass in its list
    dead,              \* stream_loop's dead
    ws_state,          \* per connection: "new", "open", "crashed", "closed"
    alive,             \* per connection: the peer is still there
    sent,              \* per connection: the snapshot sends attempted on it, in order
    sel_pc,            \* per select_cities thread: "idle", "l132", "l134", "done"
    sel_req,           \* per select_cities thread: req.cities
    sel_resp,          \* per select_cities thread: the "active" list it returned
    main_rag,          \* main._rag: 0 for None, else an instance
    rag_rag,           \* rag._rag: 0 for None, else an instance
    n_inst,            \* LangchainRAG objects constructed so far
    inst,              \* per LangchainRAG object: _init_stage, _ready, _init_error, vectorstore, llm
    thr_pc,            \* per get_rag_lazy caller: "unborn" (no call), "m46", "r340", "m48", "done"
    thr_ret,           \* per get_rag_lazy caller: the instance it holds
    q_pc,              \* the question in progress: "idle", "lazy", "wait", "generate", "mock", "done"
    q_rag,             \* the instance the question's handler got from get_rag_lazy
    q_clock,           \* seconds since the question's start_time
    q_elapsed,         \* query_stream's elapsed
    q_last,            \* query_stream's last_progress
    q_chunks,          \* chunks the generation call has streamed
    out,               \* the fragments query_stream has yielded for the question
    q_after_fail,      \* history: some _init had failed when the question was asked
    final,             \* the closing event of chat_stream's generate(): "none", "empty", "sources"
    fetch_log,         \* history: what each station fetch of the cycle came back with
    derived,           \* the station payloads parsed so far and what was made of each
    st_pc,             \* the rag_status request in progress: "idle", "l175", "l176"
    st_resp,           \* the report rag_status is building / has returned
    served             \* the kind of requests the clients make in the run explored

streamVars == <<latest, ws_clients, loop_pc, cycle, fetch_list, fetch_k, all_data,
                pass_copy, pass_i, dead, ws_state, alive, sent>>
cityVars == <<active_cities, processor_cities, connector_cities>>
selVars == <<sel_pc, sel_req, sel_resp>>
lazyVars == <<main_rag, rag_rag, n_inst, thr_pc, thr_ret>>
questionVars == <<q_pc, q_rag, q_clock, q_elapsed, q_last, q_chunks, out, q_after_fail,
                  final>>
ragVars == <<lazyVars, inst, questionVars>>
statusVars == <<st_pc, st_resp>>
otherVars == <<derived, statusVars, served>>
vars == <<streamVars, cityVars, selVars, ragVars, fetch_log, otherVars>>

Subs == 1..MaxSubs
SelThreads == 1..MaxSel
\* The callers of get_rag_lazy: the threads, and the event loop (caller 0),
\* which runs the question handlers.
Threads == 1..MaxThreads
LoopCaller == 0
Callers == Threads \cup {LoopCaller}
\* Every caller can construct at most one LangchainRAG.
Insts == 1..(MaxThreads + 1)

\* LangchainRAG.__init__: the fields of a new object; "none" before it exists.
NoInst == [stage |-> "none", ready |-> FALSE, error |-> FALSE,
           vectorstore |-> FALSE, llm |-> FALSE]
NewInst == [stage |-> "starting", ready |-> FALSE, error |-> FALSE,
            vectorstore |-> FALSE, llm |-> FALSE]

\* rag_status has not reported yet.
NoReport == [made |-> FALSE, loaded |-> FALSE, ready |-> FALSE, error |-> FALSE]

\* ----------------------------------------------------------------- helpers
\* The stations fetch_all visits for a list of cities, in order: the outer
\* loop over self.cities (unknown names skipped), the inner enumerate().
RECURSIVE StationsOf(_)
StationsOf(cities) ==
    IF cities = <<>> THEN <<>>
    ELSE LET c == Head(cities)
             own == IF c \in DOMAIN CITIES_CONFIG
                    THEN [i \in 1..CITIES_CONFIG[c] |-> <<c, i>>]
                    ELSE <<>>
         IN  own \o StationsOf(Tail(cities))

\* (mutant) a failed fetch still hands back a reading
AlwaysData(station, resp) == <<[station |-> station]>>

\* fetch_station: the reading, or None (modelled as <<>>) on any failure.
fetch_station(station, resp) ==
    IF resp = "ok" THEN <<[station |-> station]>> ELSE <<>>

\* (mutant) the index counts the city's readings collected so far
ZoneByArrival(station) ==
    [zone_id |-> <<Abbrev(station[1]),
                   Len(SelectSeq(all_data, LAMBDA r : r.city = station[1])) + 1>>,
     city |-> station[1]]

\* The record fetch_all appends for a station that returned data.
ZoneRecord(station) ==
    [zone_id |-> <<Abbrev(station[1]), station[2]>>, city |-> station[1]]

\* _latest = {} at module load.
NoSnapshot == [present |-> FALSE, cycle |-> 0, readings |-> <<>>, cities |-> <<>>]

\* AsyncProcessor._process_batch: the city aggregates (here the count per
\* city present in the frame) and the records.  An empty frame gives the
\* empty-data marker, a dict that has keys and so is truthy.
_process_batch(df, n) ==
    IF df = <<>>
    THEN [present |-> TRUE, cycle |-> n, readings |-> <<>>, cities |-> <<>>]
    ELSE LET cs == {df[i].city : i \in 1..Len(df)}
         IN  [present |-> TRUE, cycle |-> n, readings |-> df,
              cities |-> [c \in cs |->
                            [count |-> Cardinality({i \in 1..Len(df) : df[i].city = c})]]]

\* `if _latest:` / `_latest or ...`: a dict is truthy when it has a key.
Truthy(snap) == snap.present

\* `live = _latest or {}` in chat_stream and chat: the snapshot a question
\* is answered with ({} is the value of NoSnapshot).
live == IF Truthy(latest) THEN latest ELSE NoSnapshot

\* GET /api/snapshot
snapshot == IF Truthy(latest) THEN latest
            ELSE [present |-> TRUE, cycle |-> 0, readings |-> <<>>, cities |-> <<>>]

\* list.remove for every element of `gone` that is still in `xs`.
RemoveAll(xs, gone) == SelectSeq(xs, LAMBDA w : w \notin Range(gone))

\* The module globals and the objects as they are when the server has
\* started: nothing polled, nobody registered, no backend object.
Boot ==
    /\ latest = NoSnapshot
    /\ ws_clients = <<>>
    /\ active_cities = ConfigKeys
    /\ processor_cities = ConfigKeys
    /\ connector_cities = ConfigKeys
    /\ loop_pc = "fetch"
    /\ cycle = 1
    /\ fetch_list = StationsOf(ConfigKeys)
    /\ fetch_k = 1
    /\ all_data = <<>>
    /\ pass_copy = <<>>
    /\ pass_i = 1
    /\ dead = <<>>
    /\ ws_state = [w \in Subs |-> "new"]
    /\ alive = [w \in Subs |-> TRUE]
    /\ sent = [w \in Subs |-> <<>>]
    /\ sel_pc = [t \in SelThreads |-> "idle"]
    /\ sel_req = [t \in SelThreads |-> <<>>]
    /\ sel_resp = [t \in SelThreads |-> <<>>]
    /\ main_rag = 0
    /\ rag_rag = 0
    /\ n_inst = 0
    /\ inst = [i \in Insts |-> NoInst]
    /\ thr_pc = [c \in Callers |-> "unborn"]
    /\ thr_ret = [c \in Callers |-> 0]
    /\ q_pc = "idle"
    /\ q_rag = 0
    /\ q_clock = 0
    /\ q_elapsed = 0
    /\ q_last = FirstProgress
    /\ q_chunks = 0
    /\ out = <<>>
    /\ q_after_fail = FALSE
    /\ final = "none"
    /\ fetch_log = <<>>
    /\ derived = <<>>
    /\ st_pc = "idle"
    /\ st_resp = NoReport

\* The specifications of one part of the server explore that part alone and
\* do not restrict the requests by kind.
Init == Boot /\ served = "any"

\* ------------------------------------------------- the poll loop (one task)
\* (mutant) the frame is handed on after every single fetch
DoneAfterEveryFetch(k, list) == TRUE

\* fetch_all's two for loops are exhausted after the station at position k.
FetchAllDone(k, list) == k = Len(list)

\* WAQIConnector.stream: `if not df.empty: yield df`.
StreamYields(df) == df # <<>>

\* (mutant) the pass iterates the live list: `for ws in _ws_clients`
LiveList == ws_clients

\* The list the broadcast pass iterates: `for ws in list(_ws_clients)`.
PassList == pass_copy

\* (mutant) a raising send ends the pass
AbortOnFailure(i, list, ok) == ok /\ i < Len(list)

\* The for loop of the pass goes on to its next element after the send at
\* position i, whether the send raised or not (the except clause only
\* records the socket).
PassContinues(i, list, ok) == i < Len(list)

\* (mutant) a pass with a failed send empties the registry
DropsEveryone(xs, gone) == IF gone = <<>> THEN xs ELSE <<>>

\* (mutant) the dead sockets are collected and never removed
KeepDead(xs, gone) == xs

\* `for ws in dead: if ws in _ws_clients: _ws_clients.remove(ws)`
RemoveDead(xs, gone) == RemoveAll(xs, gone)

\* (mutant) the removals are made without the membership test
AlwaysListed(xs, w) == TRUE

\* `if ws in _ws_clients` (stream_loop), `if websocket in _ws_clients`
\* (ws_endpoint): the test that guards every list.remove.
StillListed(xs, w) == w \in Range(xs)

\* list.remove raises ValueError for an element that is not in the list: the
\* dead-socket loop of a pass would end stream_loop with it.
RemoveRaises(xs, gone) ==
    \E i \in 1..Len(gone) : StillListed(xs, gone[i]) /\ gone[i] \notin Range(xs)

\* (mutant) the pass begins and _latest still holds the batch before
PublishAfterPass(df) ==
    /\ latest' = latest
    /\ pass_copy' = ws_clients
    /\ dead' = <<>>
    /\ pass_i' = 1
    /\ loop_pc' = IF ws_clients = <<>> THEN "sleep" ELSE "broadcast"

\* stream_loop's body from `_latest = batch` to the first await of the pass.
\* With nobody registered the pass has no await and the generator goes on to
\* asyncio.sleep at once.
Publish(df) ==
    /\ latest' = _process_batch(df, cycle)
    /\ pass_copy' = ws_clients
    /\ dead' = <<>>
    /\ pass_i' = 1
    /\ loop_pc' = IF ws_clients = <<>> THEN "sleep" ELSE "broadcast"

\* The request for the station at position j of the cycle has been made:
\* fetch_all makes it in the iteration of its for loop that awaits it, after
\* the await of the station before has returned.
Started(j) == j <= fetch_k

\* `data = await self.fetch_station(station)` returns for the station at
\* fetch_k.  After the last station fetch_all returns, stream() yields the
\* frame only when it is not empty, and stream_loop publishes it; all of
\* that runs without an await.
FetchStep(resp) ==
    /\ loop_pc = "fetch"
    /\ LET station == fetch_list[fetch_k]
           data == fetch_station(station, resp)
           df == IF data # <<>> THEN Append(all_data, ZoneRecord(station)) ELSE all_data
       IN  /\ all_data' = df
           /\ IF ~FetchAllDone(fetch_k, fetch_list)
              THEN /\ fetch_k' = fetch_k + 1
                   /\ UNCHANGED <<latest, pass_copy, dead, pass_i, loop_pc>>
              ELSE /\ fetch_k' = fetch_k
                   /\ IF StreamYields(df)
                      THEN Publish(df)
                      ELSE /\ loop_pc' = "sleep"
                           /\ UNCHANGED <<latest, pass_copy, dead, pass_i>>
    /\ UNCHANGED <<ws_clients, cycle, fetch_list, ws_state, alive, sent, cityVars,
                   selVars, ragVars, otherVars>>

FetchStation(resp) == FetchStep(resp) /\ UNCHANGED fetch_log

\* The same step, with the response written to the history of the cycle.
FetchStationLogged(resp) == FetchStep(resp) /\ fetch_log' = Append(fetch_log, resp)

\* `await ws.send_text(payload)` returns or raises for the socket at pass_i;
\* the payload was serialised from this cycle's batch before the pass.  A send
\* raises exactly when the peer is gone.  After the last socket the dead ones
\* are removed and the generator goes to asyncio.sleep.
BroadcastSend ==
    /\ loop_pc = "broadcast"
    /\ pass_i <= Len(PassList)
    /\ LET ws == PassList[pass_i]
           ok == alive[ws]
           gone == IF ok THEN dead ELSE Append(dead, ws)
       IN  /\ sent' = [sent EXCEPT ![ws] =
                          Append(@, [cycle |-> cycle, via |-> "broadcast", ok |-> ok])]
           /\ dead' = gone
           /\ IF PassContinues(pass_i, PassList, ok)
              THEN /\ pass_i' = pass_i + 1
                   /\ UNCHANGED <<ws_clients, loop_pc>>
              ELSE /\ pass_i' = pass_i
                   /\ ws_clients' = RemoveDead(ws_clients, gone)
                   /\ loop_pc' = IF RemoveRaises(ws_clients, gone) THEN "crashed"
                                 ELSE "sleep"
    /\ UNCHANGED <<latest, cycle, fetch_list, fetch_k, all_data, pass_copy,
                   ws_state, alive, cityVars, selVars, ragVars, fetch_log, otherVars>>

\* asyncio.sleep(INTERVAL) returns: the next iteration of stream() calls
\* fetch_all, which reads self.cities of the connector.  A list with no
\* known city has no station and so no await: that cycle is over at once.
WakeStep ==
    /\ loop_pc = "sleep"
    /\ cycle < MaxCycles
    /\ cycle' = cycle + 1
    /\ fetch_list' = StationsOf(connector_cities)
    /\ fetch_k' = 1
    /\ all_data' = <<>>
    /\ loop_pc' = IF StationsOf(connector_cities) = <<>> THEN "sleep" ELSE "fetch"
    /\ UNCHANGED <<latest, ws_clients, pass_copy, pass_i, dead, ws_state, alive,
                   sent, cityVars, selVars, ragVars, otherVars>>

Wake == WakeStep /\ UNCHANGED fetch_log

\* The same step; the history starts again with the new cycle.
WakeLogged == WakeStep /\ fetch_log' = <<>>

\* ------------------------------------------- subscribers (ws_endpoint tasks)
\* (mutant) ws_endpoint registers and sends nothing
NeverSendsOnConnect == FALSE

\* `if _latest:` in ws_endpoint.
SendsOnConnect == Truthy(latest)

\* ws_endpoint up to its receive loop: accept, append, and the on-connect
\* send of the current snapshot when there is one.  peer_ok: the peer is still
\* there when that send is made.  A raising send is outside the try block, so
\* the handler ends with the socket still in the list.
Connect(ws, peer_ok) ==
    /\ ws_state[ws] = "new"
    /\ \A v \in Subs : v < ws => ws_state[v] # "new"
    /\ ws_clients' = Append(ws_clients, ws)
    /\ IF SendsOnConnect
       THEN /\ sent' = [sent EXCEPT ![ws] =
                           Append(@, [cycle |-> latest.cycle, via |-> "connect",
                                      ok |-> peer_ok])]
            /\ alive' = [alive EXCEPT ![ws] = peer_ok]
            /\ ws_state' = [ws_state EXCEPT ![ws] = IF peer_ok THEN "open" ELSE "crashed"]
       ELSE /\ peer_ok
            /\ ws_state' = [ws_state EXCEPT ![ws] = "open"]
            /\ UNCHANGED <<sent, alive>>
    /\ UNCHANGED <<latest, loop_pc, cycle, fetch_list, fetch_k, all_data, pass_copy,
                   pass_i, dead, cityVars, selVars, ragVars, fetch_log, otherVars>>

\* The peer of an open connection goes away (environment).
PeerGone(ws) ==
    /\ ws_state[ws] = "open"
    /\ alive[ws]
    /\ alive' = [alive EXCEPT ![ws] = FALSE]
    /\ UNCHANGED <<latest, ws_clients, loop_pc, cycle, fetch_list, fetch_k, all_data,
                   pass_copy, pass_i, dead, ws_state, sent, cityVars, selVars, ragVars, fetch_log, otherVars>>

\* receive_text raises for a peer that is gone: the except clause removes the
\* socket if it is still listed, and the handler ends.  A list.remove of a
\* socket that is not listed would raise out of the except clause.
Disconnect(ws) ==
    /\ ws_state[ws] = "open"
    /\ ~alive[ws]
    /\ ws_clients' = IF StillListed(ws_clients, ws) THEN RemoveAll(ws_clients, <<ws>>)
                      ELSE ws_clients
    /\ ws_state' = [ws_state EXCEPT ![ws] =
                       IF StillListed(ws_clients, ws) /\ ws \notin Range(ws_clients)
                       THEN "crashed" ELSE "closed"]
    /\ UNCHANGED <<latest, loop_pc, cycle, fetch_list, fetch_k, all_data, pass_copy,
                   pass_i, dead, alive, sent, cityVars, selVars, ragVars, fetch_log, otherVars>>

\* receive_text returns "ping" and the handler answers "pong" to a peer that
\* is there.  A pong is no snapshot and `sent` logs the snapshot sends only,
\* so the step leaves the modelled state as it is.
Ping(ws) ==
    /\ ws_state[ws] = "open"
    /\ alive[ws]
    /\ UNCHANGED vars

NextStream ==
    \/ \E resp \in Responses : FetchStation(resp)
    \/ BroadcastSend
    \/ Wake
    \/ \E ws \in Subs, peer_ok \in BOOLEAN : Connect(ws, peer_ok)
    \/ \E ws \in Subs : PeerGone(ws)
    \/ \E ws \in Subs : Disconnect(ws)
    \/ \E ws \in Subs : Ping(ws)

SpecStream == Init /\ [][NextStream]_vars

\* The send of the pass to a subscriber whose peer is gone: it raises.
FailingSend == BroadcastSend /\ ~alive[PassList[pass_i]]

\* What the event loop guarantees the poll loop: a station fetch comes back
\* (the HTTP client has a 10 s timeout), asyncio.sleep returns, and a send to
\* a peer that is gone raises.  Nothing bounds `await ws.send_text(payload)`
\* to a peer that is there: it returns when the subscriber's transport has
\* taken the payload, so no fairness is assumed for such a send.
SpecStreamFair ==
    /\ SpecStream
    /\ WF_vars(\E resp \in Responses : FetchStation(resp))
    /\ WF_vars(Wake)
    /\ WF_vars(FailingSend)

\* The poll loop alone (nobody subscribes), with the history of its fetches.
NextFetch ==
    \/ \E resp \in Responses : FetchStationLogged(resp)
    \/ WakeLogged

SpecFetch == Init /\ [][NextFetch]_vars

\* ------------------------------ select_cities (sync endpoint: pool threads)
\* `[c for c in req.cities if c in CITIES_CONFIG]`
KnownOnly(cities) == SelectSeq(cities, LAMBDA c : c \in DOMAIN CITIES_CONFIG)

\* Line 131: the global _active_cities is rebound to the filtered list.
SelectAssign(t, req) ==
    /\ sel_pc[t] = "idle"
    /\ \A u \in SelThreads : u < t => sel_pc[u] # "idle"
    /\ active_cities' = KnownOnly(req)
    /\ sel_req' = [sel_req EXCEPT ![t] = req]
    /\ sel_pc' = [sel_pc EXCEPT ![t] = "l132"]
    /\ UNCHANGED <<streamVars, processor_cities, connector_cities, sel_resp, ragVars, fetch_log, otherVars>>

\* Lines 132-133: get_processor returns the processor stream_loop made at
\* startup, and its `cities` attribute is rebound to what the global holds
\* now.  The connector made in start() keeps the list it was given.
SelectSetProcessor(t) ==
    /\ sel_pc[t] = "l132"
    /\ processor_cities' = active_cities
    /\ sel_pc' = [sel_pc EXCEPT ![t] = "l134"]
    /\ UNCHANGED <<streamVars, active_cities, connector_cities, sel_req, sel_resp, ragVars, fetch_log, otherVars>>

\* Line 134: the response carries what the global holds now.
SelectReturn(t) ==
    /\ sel_pc[t] = "l134"
    /\ sel_resp' = [sel_resp EXCEPT ![t] = active_cities]
    /\ sel_pc' = [sel_pc EXCEPT ![t] = "done"]
    /\ UNCHANGED <<streamVars, cityVars, sel_req, ragVars, fetch_log, otherVars>>

\* The poll loop with nobody subscribed, and the selection requests.
NextSelect ==
    \/ \E resp \in Responses : FetchStation(resp)
    \/ Wake
    \/ \E t \in SelThreads, req \in Requests : SelectAssign(t, req)
    \/ \E t \in SelThreads : SelectSetProcessor(t)
    \/ \E t \in SelThreads : SelectReturn(t)

SpecSelect == Init /\ [][NextSelect]_vars

\* ------------------------------------------- get_rag_lazy / get_rag (racy)
\* What a caller keeps of the object get_rag_lazy returned: the question
\* handler its `rag`; _preload_rag and _trigger_load drop it.
Returned(c, i) == IF c = LoopCaller THEN i ELSE 0

\* main.get_rag_lazy line 46 and rag.get_rag line 339: both globals are read.
\* With main._rag set it is returned (line 49); with only rag._rag set that
\* one is returned to line 48; with neither the caller goes on to construct.
LazyCheck(c) ==
    /\ thr_pc[c] = "m46"
    /\ IF main_rag # 0
       THEN /\ thr_ret' = [thr_ret EXCEPT ![c] = Returned(c, main_rag)]
            /\ thr_pc' = [thr_pc EXCEPT ![c] = "done"]
       ELSE IF rag_rag # 0
       THEN /\ thr_ret' = [thr_ret EXCEPT ![c] = rag_rag]
            /\ thr_pc' = [thr_pc EXCEPT ![c] = "m48"]
       ELSE /\ thr_pc' = [thr_pc EXCEPT ![c] = "r340"]
            /\ UNCHANGED thr_ret
    /\ UNCHANGED <<main_rag, rag_rag, n_inst, inst, questionVars,
                   streamVars, cityVars, selVars, fetch_log, otherVars>>

\* rag.get_rag lines 340-341: `_rag = LangchainRAG()`; the constructor starts
\* the object's _init thread.  No lock is held between the test of line 339
\* and this store.
LazyConstruct(c) ==
    /\ thr_pc[c] = "r340"
    /\ n_inst' = n_inst + 1
    /\ inst' = [inst EXCEPT ![n_inst + 1] = NewInst]
    /\ rag_rag' = n_inst + 1
    /\ thr_ret' = [thr_ret EXCEPT ![c] = n_inst + 1]
    /\ thr_pc' = [thr_pc EXCEPT ![c] = "m48"]
    /\ UNCHANGED <<main_rag, questionVars, streamVars, cityVars, selVars, fetch_log, otherVars>>

\* main.get_rag_lazy lines 48-49: `_rag = get_rag()`, `return _rag`.
LazyStore(c) ==
    /\ thr_pc[c] = "m48"
    /\ main_rag' = thr_ret[c]
    /\ thr_ret' = [thr_ret EXCEPT ![c] = Returned(c, @)]
    /\ thr_pc' = [thr_pc EXCEPT ![c] = "done"]
    /\ UNCHANGED <<rag_rag, n_inst, inst, questionVars, streamVars, cityVars, selVars, fetch_log, otherVars>>

\* A thread that will call get_rag_lazy is started: thread 1 by startup()
\* (_preload_rag), every other by a POST /api/rag/preload (_trigger_load),
\* which the server takes only after startup.
StartThread(t) ==
    /\ thr_pc[t] = "unborn"
    /\ \A u \in Threads : u < t => thr_pc[u] # "unborn"
    /\ thr_pc' = [thr_pc EXCEPT ![t] = "m46"]
    /\ UNCHANGED <<main_rag, rag_rag, n_inst, inst, thr_ret, questionVars,
                   streamVars, cityVars, selVars, fetch_log, otherVars>>

\* ------------------------------------------ LangchainRAG._init (one thread)
\* (mutant) _init goes from the embeddings straight to the LLM client
SkipsVectors(st) ==
    CASE st = "starting" -> "initializing_embeddings"
      [] st = "initializing_embeddings" -> "loading_llm"
      [] st = "loading_llm" -> "ready"
      [] OTHER -> st

\* The stage the try block enters after the work of the stage it is in.
NextStage(st) ==
    CASE st = "starting" -> "initializing_embeddings"
      [] st = "initializing_embeddings" -> "loading_vectors"
      [] st = "loading_vectors" -> "loading_llm"
      [] st = "loading_llm" -> "ready"
      [] OTHER -> st

\* The work of the current stage succeeds and the next stage is entered:
\* loading_vectors sets self.vectorstore, loading_llm sets self.llm.
InitAdvance(i) ==
    /\ inst[i].stage \in {"starting", "initializing_embeddings", "loading_vectors",
                          "loading_llm"}
    /\ inst' = [inst EXCEPT ![i] =
                  [@ EXCEPT !.stage = NextStage(@),
                            !.vectorstore = @ \/ inst[i].stage = "loading_vectors",
                            !.llm = @ \/ inst[i].stage = "loading_llm"]]
    /\ UNCHANGED <<lazyVars, questionVars, streamVars, cityVars, selVars, fetch_log, otherVars>>

\* Line 195: `self._ready = True`, after `_init_stage = "ready"`.
InitSetReady(i) ==
    /\ inst[i].stage = "ready"
    /\ ~inst[i].ready
    /\ inst' = [inst EXCEPT ![i] = [@ EXCEPT !.ready = TRUE]]
    /\ UNCHANGED <<lazyVars, questionVars, streamVars, cityVars, selVars, fetch_log, otherVars>>

\* The work of the current stage raises (makedirs, the missing API key, the
\* index load or build, the LLM client): lines 202-203 record _init_error and
\* then set _init_stage to "error".  The two stores are one step: _init_stage
\* is read only by query_stream, after it has read _init_error as unset, so
\* no reader tells them apart.  In loading_vectors the index may have been
\* assigned before save_local raised (vs_set).
InitFail(i, vs_set) ==
    /\ inst[i].stage \in {"starting", "initializing_embeddings", "loading_vectors",
                          "loading_llm"}
    /\ vs_set => inst[i].stage = "loading_vectors"
    /\ inst' = [inst EXCEPT ![i] =
                  [@ EXCEPT !.error = TRUE, !.stage = "error",
                            !.vectorstore = @ \/ vs_set]]
    /\ UNCHANGED <<lazyVars, questionVars, streamVars, cityVars, selVars, fetch_log, otherVars>>

\* ------------------------------------- questions (chat / chat_stream tasks)
\* A question arrives (POST /api/chat or /api/chat/stream): its handler calls
\* get_rag_lazy on the event loop.  Questions are taken one after another; a
\* question shares nothing with another but what it reads; the next one is
\* taken when the handler of the one before has closed its stream.
Ask ==
    /\ q_pc = "idle" \/ (q_pc = "done" /\ final # "none")
    /\ thr_pc[1] # "unborn"
    /\ q_pc' = "lazy"
    /\ thr_pc' = [thr_pc EXCEPT ![LoopCaller] = "m46"]
    /\ thr_ret' = [thr_ret EXCEPT ![LoopCaller] = 0]
    /\ q_rag' = 0
    /\ q_clock' = 0
    /\ q_elapsed' = 0
    /\ q_last' = FirstProgress
    /\ q_chunks' = 0
    /\ out' = <<>>
    /\ q_after_fail' = \E i \in Insts : inst[i].error
    /\ final' = "none"
    /\ UNCHANGED <<main_rag, rag_rag, n_inst, inst, streamVars, cityVars, selVars, fetch_log, otherVars>>

\* get_rag_lazy has returned: query_stream is called on the object it gave
\* (lines 230-236: start_time, last_progress = -10, elapsed = 0).
QueryStart ==
    /\ q_pc = "lazy"
    /\ thr_pc[LoopCaller] = "done"
    /\ q_rag' = thr_ret[LoopCaller]
    /\ thr_ret' = [thr_ret EXCEPT ![LoopCaller] = 0]
    /\ thr_pc' = [thr_pc EXCEPT ![LoopCaller] = "unborn"]
    /\ q_pc' = "wait"
    /\ UNCHANGED <<q_clock, q_elapsed, q_last, q_chunks, out, q_after_fail, final, main_rag, rag_rag,
                   n_inst, inst, streamVars, cityVars, selVars, fetch_log, otherVars>>

\* (mutant) the loop tests readiness only
WaitsUntilReady(ready, elapsed) == ~ready

\* `while not self._ready and elapsed < timeout`
KeepsWaiting(ready, elapsed) == ~ready /\ elapsed < Timeout

\* `if int(elapsed) - last_progress >= 5`
ProgressDue(elapsed, last) == elapsed - last >= ProgressEvery

\* One evaluation of the while condition of query_stream and what follows up
\* to the next await.  In the loop: elapsed is measured, a recorded init
\* error ends the stream with one error fragment, a progress fragment is
\* yielded when due, and the task sleeps check_interval.  After the loop: not
\* ready gives one error or timeout fragment and the end; ready runs the
\* similarity search (retrieved: it did not raise) and goes on to generate.
\* Time passes in the sleep only: q_clock is time.time() - start_time.
QueryWait(retrieved) ==
    /\ q_pc = "wait"
    /\ LET r == inst[q_rag] IN
       IF KeepsWaiting(r.ready, q_elapsed)
       THEN /\ retrieved
            /\ q_elapsed' = q_clock
            /\ IF r.error
               THEN /\ out' = Append(out, "init_error")
                    /\ q_pc' = "done"
                    /\ UNCHANGED <<q_last, q_clock>>
               ELSE /\ IF ProgressDue(q_clock, q_last)
                       THEN /\ out' = Append(out, "progress")
                            /\ q_last' = q_clock
                       ELSE UNCHANGED <<out, q_last>>
                    /\ q_clock' = q_clock + CheckInterval
                    /\ q_pc' = "wait"
       ELSE /\ UNCHANGED <<q_elapsed, q_last, q_clock>>
            /\ IF ~r.ready
               THEN /\ retrieved
                    /\ out' = Append(out, IF r.error THEN "init_error" ELSE "timeout")
                    /\ q_pc' = "done"
               ELSE IF ~retrieved
               THEN /\ out' = Append(out, "retrieval_error")
                    /\ q_pc' = "done"
               ELSE /\ out' = Append(out, "retrieved")
                    /\ q_pc' = IF r.llm THEN "generate" ELSE "mock"
    /\ UNCHANGED <<q_rag, q_chunks, q_after_fail, final, lazyVars, inst, streamVars, cityVars,
                   selVars, fetch_log, otherVars>>

\* `async for chunk in self.llm.astream(prompt)`: a chunk is yielded.
GenerateChunk ==
    /\ q_pc = "generate"
    /\ q_chunks < MaxChunks
    /\ q_chunks' = q_chunks + 1
    /\ out' = Append(out, "token")
    /\ UNCHANGED <<q_pc, q_rag, q_clock, q_elapsed, q_last, q_after_fail, final, lazyVars, inst,
                   streamVars, cityVars, selVars, fetch_log, otherVars>>

\* (mutant) the except clause yields the error fragment and returns
NoFallback == "done"

\* The except clause of the generation call goes on to _mock_stream.
AfterGenerationError == "mock"

\* The generation call ends (failed = FALSE), or raises: one error fragment,
\* then the canned fallback.
GenerateEnd(failed) ==
    /\ q_pc = "generate"
    /\ IF failed
       THEN /\ out' = Append(out, "gemini_error")
            /\ q_pc' = AfterGenerationError
            /\ q_chunks' = 0
       ELSE /\ q_pc' = "done"
            /\ UNCHANGED <<out, q_chunks>>
    /\ UNCHANGED <<q_rag, q_clock, q_elapsed, q_last, q_after_fail, final, lazyVars, inst,
                   streamVars, cityVars, selVars, fetch_log, otherVars>>

\* _mock_stream: one word of the canned text per step, then the end.
MockWord ==
    /\ q_pc = "mock"
    /\ out' = Append(out, "mock")
    /\ q_chunks' = q_chunks + 1
    /\ q_pc' = IF q_chunks + 1 = MockWords THEN "done" ELSE "mock"
    /\ UNCHANGED <<q_rag, q_clock, q_elapsed, q_last, q_after_fail, final, lazyVars, inst,
                   streamVars, cityVars, selVars, fetch_log, otherVars>>

\* (mutant) get_sources tests the index alone
HasIndex(r) == r.vectorstore

\* get_sources: `if not self._ready or not self.vectorstore: return []`
SourcesAvailable(r) == r.ready /\ r.vectorstore

\* generate() of chat_stream after query_stream is exhausted: get_sources
\* (found: its similarity search returned documents and did not raise) and
\* the closing event that carries the list.
Final(found) ==
    /\ q_pc = "done"
    /\ final = "none"
    /\ final' = IF SourcesAvailable(inst[q_rag]) /\ found THEN "sources" ELSE "empty"
    /\ UNCHANGED <<q_pc, q_rag, q_clock, q_elapsed, q_last, q_chunks, out, q_after_fail,
                   lazyVars, inst, streamVars, cityVars, selVars, fetch_log, otherVars>>

NextRag ==
    \/ \E c \in Callers : LazyCheck(c)
    \/ \E c \in Callers : LazyConstruct(c)
    \/ \E c \in Callers : LazyStore(c)
    \/ \E t \in Threads : StartThread(t)
    \/ \E i \in Insts : InitAdvance(i)
    \/ \E i \in Insts : InitSetReady(i)
    \/ \E i \in Insts, vs_set \in BOOLEAN : InitFail(i, vs_set)
    \/ Ask
    \/ QueryStart
    \/ \E retrieved \in BOOLEAN : QueryWait(retrieved)
    \/ GenerateChunk
    \/ \E failed \in BOOLEAN : GenerateEnd(failed)
    \/ MockWord
    \/ \E found \in BOOLEAN : Final(found)

SpecRag == Init /\ [][NextRag]_vars

\* The event loop resumes a task whose asyncio.sleep is over, and a generator
\* whose last fragment has been taken.
SpecRagFair ==
    /\ SpecRag
    /\ WF_vars(\E retrieved \in BOOLEAN : QueryWait(retrieved))
    /\ WF_vars(\E found \in BOOLEAN : Final(found))

\* ------------------------------ parsing a station payload, the emission rate
\* A JSON value of the payload: None, a string, a number, a number too large
\* for a float, a list or dict, or a key that is absent.
Val(kind, str, num) == [kind |-> kind, s |-> str, n |-> num]
Num(n) == Val("num", "", n)
Str(str) == Val("str", str, 0)
NoneVal == Val("none", "", 0)
ListVal == Val("list", "", 0)
HugeVal == Val("huge", "", 0)
Absent == Val("absent", "", 0)

\* The values a channel is given in the payloads explored.
RawValues == {NoneVal, Str("-"), Str(""), Str("NA"), Str("N/A"), Str("abc"), Str("42"),
              Num(0), Num(150), ListVal, HugeVal, Absent}

\* The payloads explored: one channel varies, the other has a plain number.
Payloads == {[aqi |-> a, pm25 |-> Num(12)] : a \in RawValues}
                \cup {[aqi |-> Num(150), pm25 |-> b] : b \in RawValues}

\* The hours datetime.now().hour gives in the cases explored: both sides of
\* every boundary of the two peak windows.
Hours == {6, 7, 10, 11, 17, 18, 21, 22}

\* The (payload, hour) pairs explored: every payload at one hour, and at
\* every hour the payloads whose index is 0, "-", 150 or "42".
Inputs ==
    {<<payload, 7>> : payload \in Payloads}
        \cup {<<[aqi |-> a, pm25 |-> Num(12)], hour>> :
                  a \in {Num(0), Str("-"), Num(150), Str("42")}, hour \in Hours}

\* `val in (None, "-", "", "NA", "N/A")`
IsMarker(val) ==
    \/ val.kind = "none"
    \/ val.kind = "str" /\ val.s \in {"-", "", "NA", "N/A"}

\* float(val): the number, or the exception it raises.
float(val) ==
    CASE val.kind = "num" -> [exc |-> "none", v |-> val.n]
      [] val.kind = "str" /\ val.s = "42" -> [exc |-> "none", v |-> 42]
      [] val.kind = "str" -> [exc |-> "ValueError", v |-> 0]
      [] val.kind = "huge" -> [exc |-> "OverflowError", v |-> 0]
      [] OTHER -> [exc |-> "TypeError", v |-> 0]

\* (mutant) safe_float without its except clause
CatchesNothing(exc) == FALSE

\* `except (ValueError, TypeError)`
Caught(exc) == exc \in {"ValueError", "TypeError"}

\* safe_float(val, fallback): the value, or the exception that escapes it.
safe_float(val, fallback) ==
    IF IsMarker(val) THEN [exc |-> "none", v |-> fallback]
    ELSE LET f == float(val)
         IN  IF f.exc # "none" /\ Caught(f.exc)
             THEN [exc |-> "none", v |-> fallback]
             ELSE f

\* `d.get("aqi", 0)` and `(iaqi.get(key) or {}).get("v", 0)`: an absent key
\* reads as the number 0.
get_val(raw) == safe_float(IF raw.kind = "absent" THEN Num(0) ELSE raw, 0)

\* fetch_station from line 79 on: the reading, or None (emitted = FALSE)
\* when an exception reaches the except clause of line 107.
ParsePayload(payload) ==
    LET a == get_val(payload.aqi)
        p == get_val(payload.pm25)
    IN  IF a.exc = "none" /\ p.exc = "none"
        THEN [emitted |-> TRUE, aqi |-> a.v, pm25 |-> p.v]
        ELSE [emitted |-> FALSE, aqi |-> 0, pm25 |-> 0]

\* (mutant) the morning window ends an hour early
MorningEndsEarly(hour) ==
    IF 7 <= hour /\ hour < 10 THEN 170 ELSE IF 18 <= hour /\ hour <= 21 THEN 185 ELSE 100

\* time_mult, in hundredths: 1.7 if 7 <= hour <= 10 else 1.85 if 18 <= hour <= 21 else 1.0
time_mult(hour) ==
    IF 7 <= hour /\ hour <= 10 THEN 170 ELSE IF 18 <= hour /\ hour <= 21 THEN 185 ELSE 100

\* n / d rounded to the nearest integer, a tie to the even one (round()).
RoundDiv(n, d) ==
    LET q == n \div d
        r == n % d
    IN  IF 2 * r < d THEN q
        ELSE IF 2 * r > d THEN q + 1
        ELSE IF q % 2 = 0 THEN q ELSE q + 1

\* co2_kg_hr in hundredths: base_power = 500 + (aqi / 100) * 300,
\* round((base_power * time_mult / 1000) * 0.82 * 8, 2).
co2(aqi, hour) == RoundDiv((500 + 3 * aqi) * time_mult(hour) * 656, 100000)

\* One station payload is parsed at the given hour and, when a reading comes
\* of it, fetch_all derives the emission rate.  `derived` keeps the last two.
Derive(payload, hour) ==
    /\ LET data == ParsePayload(payload)
           rec == [payload |-> payload, hour |-> hour, emitted |-> data.emitted,
                   aqi |-> data.aqi, pm25 |-> data.pm25,
                   mult |-> IF data.emitted THEN time_mult(hour) ELSE 0,
                   co2 |-> IF data.emitted THEN co2(data.aqi, hour) ELSE 0]
       IN  derived' = IF Len(derived) < 2 THEN Append(derived, rec)
                      ELSE <<derived[2], rec>>
    /\ UNCHANGED <<streamVars, cityVars, selVars, ragVars, fetch_log, statusVars, served>>

NextDerive == \E input \in Inputs : Derive(input[1], input[2])

SpecDerive == Init /\ [][NextDerive]_vars

\* -------------------------------------- rag_status (sync endpoint: a thread)
\* (mutant) the report says loaded whatever the global holds
LoadedAlways(r) == TRUE

\* Line 174: `_rag is not None`
Loaded(r) == r # 0

\* Line 174: the request reads main._rag for "loaded".  Each line of the
\* return expression is a step of the pool thread; the requests are served
\* one after another.
StatusLoaded ==
    /\ st_pc = "idle"
    /\ st_resp' = [made |-> FALSE, loaded |-> Loaded(main_rag), ready |-> FALSE,
                   error |-> FALSE]
    /\ st_pc' = "l175"
    /\ UNCHANGED <<streamVars, cityVars, selVars, ragVars, fetch_log, derived, served>>

\* Line 175: `getattr(_rag, "_ready", False) if _rag else False`
StatusReady ==
    /\ st_pc = "l175"
    /\ st_resp' = [st_resp EXCEPT !.ready = IF main_rag # 0 THEN inst[main_rag].ready
                                             ELSE FALSE]
    /\ st_pc' = "l176"
    /\ UNCHANGED <<streamVars, cityVars, selVars, ragVars, fetch_log, derived, served>>

\* Line 176: `getattr(_rag, "_init_error", None) if _rag else None`, and the
\* report is returned.
StatusError ==
    /\ st_pc = "l176"
    /\ st_resp' = [st_resp EXCEPT !.error = IF main_rag # 0 THEN inst[main_rag].error
                                             ELSE FALSE,
                                  !.made = TRUE]
    /\ st_pc' = "idle"
    /\ UNCHANGED <<streamVars, cityVars, selVars, ragVars, fetch_log, derived, served>>

\* The preload threads, the initialisations they start, and status requests.
NextStatus ==
    \/ \E t \in Threads : StartThread(t)
    \/ \E t \in Threads : LazyCheck(t)
    \/ \E t \in Threads : LazyConstruct(t)
    \/ \E t \in Threads : LazyStore(t)
    \/ \E i \in Insts : InitAdvance(i)
    \/ \E i \in Insts : InitSetReady(i)
    \/ \E i \in Insts, vs_set \in BOOLEAN : InitFail(i, vs_set)
    \/ StatusLoaded
    \/ StatusReady
    \/ StatusError

SpecStatus == Init /\ [][NextStatus]_vars

\* ------------------------------------------ every operation, by request kind
\* The kinds of requests a run of SpecOps is given, next to the poll loop:
\* subscriber connections; city selections; preloads and questions; preloads
\* and readiness requests.
Kinds == {"subscribers", "selection", "questions", "readiness"}

InitOps == Boot /\ served \in Kinds

\* The backend object the accessor hands out has finished _init, one way or
\* the other.
Settled == main_rag # 0 /\ (inst[main_rag].ready \/ inst[main_rag].error)

\* The poll loop with no subscriber.
LoopStep ==
    \/ \E resp \in Responses : FetchStation(resp)
    \/ Wake

\* Preload threads, the initialisations they start, and questions that
\* arrive once the backend has settled (the wait of a question for a backend
\* that is still initialising is explored by SpecRag).
NextQuestions ==
    \/ LoopStep
    \/ \E c \in Callers : LazyCheck(c)
    \/ \E c \in Callers : LazyConstruct(c)
    \/ \E c \in Callers : LazyStore(c)
    \/ \E t \in Threads : StartThread(t)
    \/ \E i \in Insts : InitAdvance(i)
    \/ \E i \in Insts : InitSetReady(i)
    \/ \E i \in Insts, vs_set \in BOOLEAN : InitFail(i, vs_set)
    \/ Settled /\ Ask
    \/ QueryStart
    \/ \E retrieved \in BOOLEAN : QueryWait(retrieved)
    \/ GenerateChunk
    \/ \E failed \in BOOLEAN : GenerateEnd(failed)
    \/ MockWord
    \/ \E found \in BOOLEAN : Final(found)

NextOps ==
    \/ served = "subscribers" /\ NextStream
    \/ served = "selection" /\ NextSelect
    \/ served = "questions" /\ NextQuestions
    \/ served = "readiness" /\ (LoopStep \/ NextStatus)

SpecOps == InitOps /\ [][NextOps]_vars

\* =================================================================== claims
HasBroadcast(ws, n) ==
    \E i \in 1..Len(sent[ws]) : sent[ws][i].via = "broadcast" /\ sent[ws][i].cycle = n

\* The cycle in progress has published and its pass has begun or is over.
Published == latest.cycle = cycle /\ loop_pc \in {"broadcast", "sleep"}

\* C1: after a poll cycle in which no station fetch succeeded, the snapshot a
\* reader gets has an empty reading list and empty city aggregates.
C1_EmptyCycleEmptySnapshot ==
    (loop_pc = "sleep" /\ all_data = <<>>)
        => (snapshot.readings = <<>> /\ snapshot.cities = <<>>)

\* C3: a subscriber that connects while a snapshot exists is sent exactly
\* that snapshot in its registration step, a step that leaves the poll loop
\* where it is; a subscriber that connects before the first publication is
\* sent nothing in that step, and nothing at all is sent while no snapshot
\* has been published.
C3_OnConnectSend ==
    /\ [](~Truthy(latest) => \A ws \in Subs : sent[ws] = <<>>)
    /\ [][\A ws \in Subs :
            (ws_state[ws] = "new" /\ ws_state'[ws] # "new") =>
                /\ ws \in Range(ws_clients')
                /\ <<loop_pc', cycle', latest'>> = <<loop_pc, cycle, latest>>
                /\ IF Truthy(latest)
                   THEN /\ Len(sent'[ws]) = 1
                        /\ sent'[ws][1].via = "connect"
                        /\ sent'[ws][1].cycle = latest.cycle
                   ELSE sent'[ws] = <<>>]_vars

\* C3 witness: one subscriber was sent the current snapshot on connecting,
\* and another, connected before the first publication, got its first
\* snapshot from a broadcast.
C3_Witness ==
    \E ws, v \in Subs :
        /\ sent[ws] # <<>> /\ sent[ws][1].via = "connect" /\ sent[ws][1].ok
        /\ sent[v] # <<>> /\ sent[v][1].via = "broadcast"

\* C4: a failed broadcast send is the last send ever attempted on that
\* subscriber (no second send of that cycle, none in a later cycle), and once
\* the pass of that cycle is over the subscriber is not in the registry.
C4_FailedSubscriberDropped ==
    \A ws \in Subs : \A i \in 1..Len(sent[ws]) :
        (sent[ws][i].via = "broadcast" /\ ~sent[ws][i].ok) =>
            /\ i = Len(sent[ws])
            /\ ~(loop_pc = "broadcast" /\ cycle = sent[ws][i].cycle)
                   => ws \notin Range(ws_clients)

\* C4 witness: a broadcast send to ws failed in one cycle, and a later cycle
\* has published and finished its pass, which reached another subscriber.
C4_Witness ==
    \E ws, v \in Subs :
        /\ sent[ws] # <<>>
        /\ LET e == sent[ws][Len(sent[ws])]
           IN  e.via = "broadcast" /\ ~e.ok /\ e.cycle < cycle
        /\ loop_pc = "sleep" /\ latest.cycle = cycle
        /\ HasBroadcast(v, cycle)

\* C5: in the pass of a published cycle every subscriber of the list taken at
\* the start of the pass is sent that cycle's snapshot (all of them once the
\* pass is over, those before the current position while it runs), whatever
\* sends failed, and the current snapshot stays the one published.
C5_FailureDoesNotAbortPass ==
    Published =>
        /\ latest.readings = all_data
        /\ \A j \in 1..Len(pass_copy) :
              (loop_pc = "sleep" \/ j < pass_i) => HasBroadcast(pass_copy[j], cycle)

\* C5 witness: a pass is over in which the send to one subscriber failed and
\* a subscriber later in the list was still sent the snapshot, successfully.
C5_Witness ==
    /\ Published /\ loop_pc = "sleep"
    /\ \E i, j \in 1..Len(pass_copy) :
          /\ i < j
          /\ pass_copy[i] \in Range(dead)
          /\ \E k \in 1..Len(sent[pass_copy[j]]) :
                LET e == sent[pass_copy[j]][k]
                IN  e.via = "broadcast" /\ e.cycle = cycle /\ e.ok

\* A snapshot whose aggregates are those of its own readings.
Aggregated(snap) ==
    /\ DOMAIN snap.cities = {snap.readings[i].city : i \in 1..Len(snap.readings)}
    /\ \A c \in DOMAIN snap.cities :
          snap.cities[c].count =
              Cardinality({i \in 1..Len(snap.readings) : snap.readings[i].city = c})

\* C6: the current snapshot is the initial empty one or the aggregated frame
\* of a cycle all of whose station fetches are over; it is replaced only in
\* the step that ends the last fetch of a cycle, by the whole frame of that
\* cycle, and never shows the frame of the cycle still fetching.
C6_NoPartialSnapshot ==
    /\ [](\/ latest = NoSnapshot
          \/ /\ Truthy(latest)
             /\ Aggregated(latest)
             /\ latest.cycle <= cycle
             /\ latest.cycle = cycle =>
                   /\ loop_pc # "fetch"
                   /\ fetch_k = Len(fetch_list)
                   /\ latest.readings = all_data)
    /\ [][latest' # latest =>
            /\ loop_pc = "fetch" /\ fetch_k = Len(fetch_list)
            /\ loop_pc' # "fetch"
            /\ latest'.cycle = cycle
            /\ latest'.readings = all_data']_vars

\* C6 witness: while a cycle is part-way through its fetches with readings
\* already collected, the current snapshot is still the whole frame of an
\* earlier cycle.
C6_Witness ==
    /\ loop_pc = "fetch" /\ fetch_k > 1 /\ all_data # <<>>
    /\ Truthy(latest) /\ latest.cycle < cycle
    /\ latest.readings # all_data

\* C7: no subscriber is sent the snapshot of one cycle twice, by whatever
\* mix of on-connect send and broadcast.
C7_AtMostOncePerCycle ==
    \A ws \in Subs : \A i, j \in 1..Len(sent[ws]) :
        i < j => sent[ws][i].cycle # sent[ws][j].cycle

\* C7 witness: a subscriber registered while a pass was in progress: it got
\* the cycle's snapshot on connecting, was not in the list of the pass, and
\* the pass is over.
C7_Witness ==
    \E ws \in Subs :
        /\ Published /\ loop_pc = "sleep" /\ pass_copy # <<>>
        /\ ws \in Range(ws_clients) /\ ws \notin Range(pass_copy)
        /\ Len(sent[ws]) = 1
        /\ sent[ws][1].via = "connect" /\ sent[ws][1].cycle = cycle

\* C2: a cycle in flight keeps the stations it started with, and a cycle
\* that starts when one selection request has returned (and no other has
\* begun) fetches the stations of exactly the cities that request returned.
C2_NextCycleUsesSelection ==
    [][/\ cycle' = cycle => fetch_list' = fetch_list
       /\ cycle' = cycle + 1 =>
             \A t \in SelThreads :
                 (sel_pc[t] = "done" /\ \A u \in SelThreads \ {t} : sel_pc[u] = "idle")
                     => {fetch_list'[i][1] : i \in 1..Len(fetch_list')}
                            = Range(sel_resp[t])]_vars

\* C10: the list a selection request returns holds exactly the requested
\* names that are configured cities.
C10_SelectReturnsIntersection ==
    \A t \in SelThreads :
        sel_pc[t] = "done" =>
            Range(sel_resp[t]) = Range(sel_req[t]) \cap DOMAIN CITIES_CONFIG

OnlyProgress(frs) == \A i \in 1..Len(frs) : frs[i] = "progress"

\* C8: a question whose wait ends while its backend is neither ready nor
\* failed has waited the whole timeout, has yielded nothing but progress
\* fragments, and yields exactly one timeout fragment; a finished question
\* yields nothing more; the wait never outlasts the timeout by more than one
\* check interval, and a waiting question always gets to the end of its wait.
C8_TimeoutFragment ==
    /\ [][(q_pc = "wait" /\ q_pc' = "done"
             /\ ~inst[q_rag].ready /\ ~inst[q_rag].error) =>
            /\ q_elapsed >= Timeout
            /\ OnlyProgress(out)
            /\ out' = Append(out, "timeout")]_vars
    /\ [][q_pc = "done" => (out' = out \/ q_pc' = "lazy")]_vars
    /\ [](q_pc = "wait" => q_clock <= Timeout + CheckInterval)
    /\ (q_pc = "wait" ~> q_pc # "wait")

\* C8 witness: a question has ended with progress fragments and then the
\* timeout fragment, its backend still neither ready nor failed.
C8_Witness ==
    /\ q_pc = "done"
    /\ Len(out) > 1
    /\ out[Len(out)] = "timeout"
    /\ OnlyProgress(SubSeq(out, 1, Len(out) - 1))
    /\ ~inst[q_rag].ready /\ ~inst[q_rag].error

\* C9: a question asked after an initialisation has failed yields the
\* initialisation-error fragment and nothing else, and runs neither retrieval
\* nor generation.
C9_FailurePermanent ==
    q_after_fail =>
        /\ out \in {<<>>, <<"init_error">>}
        /\ q_pc \notin {"generate", "mock"}
        /\ q_pc = "done" => out = <<"init_error">>

\* The fetches of the cycle that have come back so far, by position.
Fetched == 1..Len(fetch_log)

\* How many readings of the frame are the record of the station at position j.
ReadingsOf(frame, j) ==
    Cardinality({i \in 1..Len(frame) : frame[i] = ZoneRecord(fetch_list[j])})

\* C11: in the frame of a cycle a station whose fetch failed (non-success
\* status, payload not ok, exception or timeout) has no reading, every station
\* whose fetch succeeded has exactly one, whatever the other stations' fetches
\* did; the frame has nothing else, and a snapshot the cycle publishes has
\* exactly the readings of the frame.
C11_FetchesFailIndependently ==
    /\ \A j \in Fetched :
          ReadingsOf(all_data, j) = IF fetch_log[j] = "ok" THEN 1 ELSE 0
    /\ Len(all_data) = Cardinality({j \in Fetched : fetch_log[j] = "ok"})
    /\ (loop_pc = "fetch" => Len(fetch_log) = fetch_k - 1)
    /\ (loop_pc = "sleep" => Len(fetch_log) = Len(fetch_list))
    /\ (latest.cycle = cycle => latest.readings = all_data)

\* C11 witness: a cycle is over whose first fetch failed, whose second
\* succeeded and whose third failed in another way; its snapshot has the one
\* reading.
C11_Witness ==
    /\ loop_pc = "sleep"
    /\ latest.cycle = cycle
    /\ Len(fetch_log) = 3
    /\ fetch_log[1] = "http_error" /\ fetch_log[2] = "ok" /\ fetch_log[3] = "exception"
    /\ Len(latest.readings) = 1

\* A channel value that is a missing marker or is otherwise not a number.
Unusable(raw) ==
    \/ raw.kind \in {"none", "list"}
    \/ raw.kind = "str" /\ raw.s # "42"

\* C12: a channel whose value is a missing marker (None, "-", "", "NA",
\* "N/A") or otherwise not a number is normalised to the fallback 0, and the
\* station's reading is emitted all the same.
C12_MissingMarkersFallBack ==
    \A i \in 1..Len(derived) :
        LET r == derived[i] IN
        /\ Unusable(r.payload.aqi) => (r.emitted /\ r.aqi = 0)
        /\ Unusable(r.payload.pm25) => (r.emitted /\ r.pm25 = 0)

\* C12 witness: readings were emitted for a payload whose air-quality index
\* is the marker "-" and for one whose pm25 is not a number.
C12_Witness ==
    /\ Len(derived) = 2
    /\ derived[1].payload.aqi = Str("-") /\ derived[1].emitted /\ derived[1].aqi = 0
    /\ derived[2].payload.pm25 = Str("abc") /\ derived[2].emitted /\ derived[2].pm25 = 0
    /\ derived[2].aqi = 150

\* The hours of the two peak windows.
PeakHours == (7..10) \cup (18..21)

\* C17: two readings with the same air-quality index derived at the same
\* hour have the same emission rate; a multiplier above the baseline is
\* applied exactly in the hours 7..10 and 18..21, the baseline in every other.
C17_EmissionRateDeterministic ==
    /\ \A i, j \in 1..Len(derived) :
          (derived[i].emitted /\ derived[j].emitted
             /\ derived[i].aqi = derived[j].aqi /\ derived[i].hour = derived[j].hour)
          => derived[i].co2 = derived[j].co2
    /\ \A i \in 1..Len(derived) :
          derived[i].emitted =>
             /\ derived[i].hour \in PeakHours <=> derived[i].mult > 100
             /\ derived[i].hour \notin PeakHours <=> derived[i].mult = 100
             /\ derived[i].co2 = RoundDiv((500 + 3 * derived[i].aqi) * derived[i].mult * 656,
                                          100000)

\* C17 witness: two readings of the same index and hour, from different
\* payloads, in the last peak hour of the evening, and the rate they share.
C17_Witness ==
    /\ Len(derived) = 2
    /\ derived[1].payload # derived[2].payload
    /\ derived[1].emitted /\ derived[2].emitted
    /\ derived[1].aqi = 0 /\ derived[2].aqi = 0
    /\ derived[1].hour = 21 /\ derived[2].hour = 21
    /\ derived[1].co2 = 607 /\ derived[2].co2 = 607

\* C13: a removal of a subscriber that is not in the registry (the pass
\* dropped it before its handler's except clause ran, or the other way round)
\* raises nothing and leaves the registry as it is; a removal of a listed one
\* takes out just that one; registering always appends the subscriber.
C13_UnregisterIdempotent ==
    /\ [](loop_pc # "crashed")
    /\ [][\A ws \in Subs :
            /\ (ws_state[ws] = "open" /\ ws_state'[ws] # "open") =>
                  /\ ws_state'[ws] = "closed"
                  /\ ws_clients' = SelectSeq(ws_clients, LAMBDA w : w # ws)
                  /\ (ws \notin Range(ws_clients) => ws_clients' = ws_clients)
            /\ (ws_state[ws] = "new" /\ ws_state'[ws] # "new") =>
                  ws_clients' = Append(ws_clients, ws)]_vars
    /\ [][(loop_pc = "broadcast" /\ loop_pc' # "broadcast") =>
            ws_clients' = SelectSeq(ws_clients, LAMBDA w : w \notin Range(dead'))]_vars

\* C13 witness: a subscriber failed a broadcast send, the pass of that cycle
\* is over and the subscriber's handler has run its except clause: whichever
\* removal came second found the subscriber gone.
C13_Witness ==
    \E ws \in Subs :
        /\ ws_state[ws] = "closed"
        /\ loop_pc = "sleep"
        /\ \E i \in 1..Len(sent[ws]) :
              sent[ws][i].via = "broadcast" /\ ~sent[ws][i].ok /\ sent[ws][i].cycle = cycle

LastOut == IF out = <<>> THEN "" ELSE out[Len(out)]

\* C14 (as claimed): the closing event comes last, once, whether the answer
\* ended normally, with an initialisation error or with a timeout, and in the
\* latter two cases it carries an empty source list.
C14_FinalFragmentEmptyOnFailure ==
    (final # "none" /\ LastOut \in {"init_error", "timeout"}) => final = "empty"

\* C14 (amended): the closing event is emitted after query_stream has ended,
\* exactly once and last, however the answer ended; after an initialisation
\* error its source list is empty; after a timeout it is empty when the
\* backend is still not ready as the sources are looked up.
C14_FinalFragmentLast ==
    /\ [](final # "none" => q_pc = "done")
    /\ [][final # "none" => ((final' = final /\ out' = out) \/ q_pc' = "lazy")]_vars
    /\ [][(final = "none" /\ final' # "none") =>
            /\ out' = out
            /\ (LastOut = "init_error" => final' = "empty")
            /\ ((LastOut = "timeout" /\ ~inst[q_rag].ready) => final' = "empty")]_vars
    /\ (q_pc = "done" ~> final # "none")

\* C14 witness: an answer ended with the timeout fragment, its backend got
\* ready after that, and the closing event carries sources.
C14_Witness ==
    /\ final = "sources"
    /\ LastOut = "timeout"
    /\ inst[q_rag].ready

\* C15: a step of the readiness query changes nothing of the backend (the two
\* globals, the instances, their stage, ready flag and error, the callers of
\* the lazy accessor), and a report made while no instance was ever built
\* says loaded = false, ready = false, error = none.
C15_StatusTriggersNothing ==
    /\ [][(st_pc' # st_pc \/ st_resp' # st_resp) =>
            (lazyVars' = lazyVars /\ inst' = inst)]_vars
    /\ []((st_resp.made /\ st_pc = "idle" /\ n_inst = 0) =>
            (~st_resp.loaded /\ ~st_resp.ready /\ ~st_resp.error))
    /\ []((st_pc # "idle" /\ n_inst = 0) => ~st_resp.loaded)

\* C15 witness: a report was returned while the preload thread was inside the
\* lazy accessor, and still no instance has been built.
C15_Witness ==
    /\ st_resp.made
    /\ st_pc = "idle"
    /\ n_inst = 0
    /\ thr_pc[1] = "r340"
    /\ ~st_resp.loaded

\* C16: whatever time a subscriber takes to accept a send, the poll loop
\* always gets to the start of its next cycle.
C16_ProducerNotThrottled ==
    \A n \in 1..(MaxCycles - 1) : (cycle = n) ~> (cycle = n + 1)

\* C18: a subscriber whose on-connect send failed is not in the registry
\* from then on, and that failed send is the last one attempted on it.
C18_RemovedAtFirstFailedSend ==
    \A ws \in Subs : \A i \in 1..Len(sent[ws]) :
        (sent[ws][i].via = "connect" /\ ~sent[ws][i].ok) =>
            (ws \notin Range(ws_clients) /\ i = Len(sent[ws]))

\* C19: while a station fetch of a cycle is awaited, the requests of all the
\* other stations of the cycle have been made as well (none waits for
\* another to come back).
C19_FetchesConcurrent ==
    loop_pc = "fetch" => \A j \in 1..Len(fetch_list) : Started(j)

\* n copies of x.
Rep(x, n) == [i \in 1..n |-> x]

\* The fragments yielded after the similarity search of the question.
Answer ==
    LET at == CHOOSE i \in 1..Len(out) : out[i] = "retrieved"
    IN  SubSeq(out, at + 1, Len(out))

\* C20: once the generation call has failed after k >= 0 fragments, the
\* answer is those k fragments, one error fragment and the words of the
\* canned text so far, all of them when the stream has ended, and it does end
\* without the failure leaving query_stream; a retrieval failure gives one
\* error fragment, with nothing but progress fragments before it, and the end.
C20_GenerationFailureFallsBack ==
    /\ "gemini_error" \in Range(out) =>
          /\ "retrieved" \in Range(out)
          /\ q_pc \in {"mock", "done"}
          /\ \E k \in 0..Len(out), j \in 0..MockWords :
                /\ Answer = Rep("token", k) \o <<"gemini_error">> \o Rep("mock", j)
                /\ q_pc = "done" <=> j = MockWords
    /\ "retrieval_error" \in Range(out) =>
          /\ q_pc = "done"
          /\ LastOut = "retrieval_error"
          /\ OnlyProgress(SubSeq(out, 1, Len(out) - 1))

\* C20 witness: an answer has ended that is one generated fragment, the
\* error fragment and the whole canned text.
C20_Witness ==
    /\ q_pc = "done"
    /\ "retrieved" \in Range(out)
    /\ Answer = <<"token", "gemini_error">> \o Rep("mock", MockWords)

\* C25: at most one LangchainRAG object is ever constructed, and so at most
\* one initialisation started, whatever the interleaving of the callers of
\* the lazy accessor.
C25_SingleInstance == n_inst <= 1

\* The place of a stage in the order of _init; ready and error come last.
StageRank(st) ==
    CASE st = "none" -> 0
      [] st = "starting" -> 1
      [] st = "initializing_embeddings" -> 2
      [] st = "loading_vectors" -> 3
      [] st = "loading_llm" -> 4
      [] OTHER -> 5

\* C24: the stage of an instance only moves forward, one stage at a time or
\* to error; ready and error are kept for ever and exclude each other; an
\* instance whose ready flag is set has its vector store and its generation
\* client and no error; a question that has run retrieval ran it on an
\* instance whose vector store is set.
C24_InitMonotone ==
    /\ [][\A i \in Insts :
            /\ StageRank(inst'[i].stage) >= StageRank(inst[i].stage)
            /\ inst[i].stage \in {"ready", "error"} => inst'[i].stage = inst[i].stage
            /\ inst[i].ready => inst'[i].ready
            /\ inst[i].error => inst'[i].error
            /\ (inst'[i].stage # inst[i].stage /\ inst'[i].stage # "error") =>
                  StageRank(inst'[i].stage) = StageRank(inst[i].stage) + 1]_vars
    /\ [](\A i \in Insts :
            /\ ~(inst[i].ready /\ inst[i].error)
            /\ inst[i].stage = "error" => inst[i].error
            /\ inst[i].ready => (inst[i].stage = "ready" /\ inst[i].vectorstore
                                   /\ inst[i].llm))
    /\ []((\E k \in 1..Len(out) : out[k] \in {"retrieved", "retrieval_error"}) =>
            (inst[q_rag].ready /\ inst[q_rag].vectorstore))

\* C24 witness: a question has run retrieval on a ready instance while
\* another instance has ended in error with its vector store assigned.
C24_Witness ==
    /\ "retrieved" \in Range(out)
    /\ inst[q_rag].ready /\ inst[q_rag].vectorstore /\ inst[q_rag].llm
    /\ \E i \in Insts : inst[i].error /\ inst[i].vectorstore

\* The zone ids of a list of records are pairwise distinct.
DistinctZones(recs) ==
    \A i, j \in 1..Len(recs) : i # j => recs[i].zone_id # recs[j].zone_id

\* C22: a zone id is the abbreviation of the city with the station's index
\* in the city's configured list: the record appended for a station carries
\* that id whatever the fetches before it in the cycle returned, the
\* abbreviations of the configured cities differ, and the zone ids of the
\* frame being collected and of the current Snapshot are pairwise distinct.
C22_ZoneIdsStable ==
    /\ [][Len(all_data') = Len(all_data) + 1 =>
            LET station == fetch_list[fetch_k]
            IN  all_data'[Len(all_data')].zone_id = <<Abbrev(station[1]), station[2]>>]_vars
    /\ [](\A a, b \in AllCities : a # b => Abbrev(a) # Abbrev(b))
    /\ [](DistinctZones(all_data) /\ DistinctZones(latest.readings))
    /\ [](\A i \in 1..Len(latest.readings) :
            LET r == latest.readings[i]
            IN  /\ r.city \in DOMAIN CITIES_CONFIG
                /\ r.zone_id[1] = Abbrev(r.city)
                /\ r.zone_id[2] \in 1..CITIES_CONFIG[r.city])

\* C22 witness: the second Delhi station is DE2 in the Snapshot of cycle 1,
\* where the first Delhi station failed, and DE2 again in the frame of
\* cycle 2, where the first Delhi station answered, after a selection
\* request that names the cities in the other order.
C22_Witness ==
    /\ latest.cycle = 1 /\ cycle = 2
    /\ \E i \in 1..Len(latest.readings) : latest.readings[i].zone_id = <<"DE", 2>>
    /\ \A i \in 1..Len(latest.readings) : latest.readings[i].zone_id # <<"DE", 1>>
    /\ Len(all_data) >= 2
    /\ all_data[1].zone_id = <<"DE", 1>> /\ all_data[2].zone_id = <<"DE", 2>>
    /\ \E t \in SelThreads : sel_pc[t] = "done" /\ sel_resp[t] = <<"Prayagraj", "Delhi">>

\* A subscriber whose handler is in its receive loop and whose sends have all
\* succeeded (a send fails exactly when the peer is gone).
GoodSubscriber(ws) == ws_state[ws] = "open" /\ alive[ws]

\* C23: a subscriber whose sends all succeed stays registered; it has been
\* sent the current Snapshot, or the pass in progress has it still ahead;
\* at the moment a new Snapshot is published it has been sent the one
\* before; and the cycles of its sends strictly increase in the order the
\* sends were initiated.
C23_NoCycleSkipped ==
    /\ [](\A ws \in Subs : GoodSubscriber(ws) =>
            /\ ws \in Range(ws_clients)
            /\ \A i \in 1..Len(sent[ws]) : sent[ws][i].ok
            /\ \A i, j \in 1..Len(sent[ws]) :
                  i < j => sent[ws][i].cycle < sent[ws][j].cycle
            /\ Truthy(latest) =>
                  \/ HasBroadcast(ws, latest.cycle)
                  \/ \E k \in 1..Len(sent[ws]) :
                        sent[ws][k].via = "connect" /\ sent[ws][k].cycle = latest.cycle
                  \/ /\ loop_pc = "broadcast"
                     /\ \E j \in pass_i..Len(pass_copy) : pass_copy[j] = ws)
    /\ [][\A ws \in Subs :
            (GoodSubscriber(ws) /\ Truthy(latest) /\ latest' # latest) =>
                \E k \in 1..Len(sent[ws]) : sent[ws][k].cycle = latest.cycle]_vars

\* C23 witness: a subscriber registered while the pass of cycle 1 was in
\* progress (it is behind a subscriber of that pass in the registry and got
\* cycle 1 on connecting) and has then been sent cycle 2 by the pass.
C23_Witness ==
    \E ws, v \in Subs :
        /\ GoodSubscriber(ws) /\ ws # v
        /\ Len(sent[ws]) = 2
        /\ sent[ws][1] = [cycle |-> 1, via |-> "connect", ok |-> TRUE]
        /\ sent[ws][2] = [cycle |-> 2, via |-> "broadcast", ok |-> TRUE]
        /\ HasBroadcast(v, 1)

\* C26: _latest is replaced before the pass of the cycle begins, and never
\* by an older cycle: in every state, what a snapshot query returns and what
\* a question reads is the Snapshot of a cycle at least as late as every
\* cycle any subscriber has been sent, and once a pass has begun it is the
\* Snapshot of the cycle of that pass.
C26_QueryNotOlderThanSent ==
    /\ [](\A ws \in Subs : \A i \in 1..Len(sent[ws]) :
            /\ Truthy(latest)
            /\ snapshot.cycle >= sent[ws][i].cycle
            /\ live.cycle >= sent[ws][i].cycle)
    /\ [](loop_pc = "broadcast" => (snapshot.cycle = cycle /\ live.cycle = cycle))
    /\ [][latest'.cycle >= latest.cycle /\ snapshot'.cycle >= snapshot.cycle]_vars

\* C26 witness: the first send of the pass of cycle 2 has been made and the
\* pass is still in progress; the query returns the Snapshot of cycle 2.
C26_Witness ==
    /\ loop_pc = "broadcast" /\ cycle = 2 /\ pass_i = 2
    /\ HasBroadcast(pass_copy[1], 2)
    /\ snapshot.cycle = 2 /\ snapshot.readings # <<>>

\* A step of an operation other than the poll loop: a subscriber's handler,
\* a lost peer, a selection, a preload thread, an initialisation, a question
\* or a readiness request moves.
OperationStep ==
    \/ <<ws_state, alive>>' # <<ws_state, alive>>
    \/ <<selVars, cityVars>>' # <<selVars, cityVars>>
    \/ ragVars' # ragVars
    \/ statusVars' # statusVars

\* Some initialisation has failed, or the question in progress has yielded a
\* fragment that reports a failure.
BackendFailure ==
    \/ \E i \in Insts : inst[i].error
    \/ \E k \in 1..Len(out) :
          out[k] \in {"init_error", "timeout", "retrieval_error", "gemini_error"}

\* C21: _latest changes only in the step of the poll loop that ends a cycle's
\* fetches and publishes their frame; a step of any other operation leaves
\* _latest and the position of the poll loop as they are; the poll loop never
\* ends in an exception, and after a failed initialisation or a failed
\* question its next step can still be taken.
C21_PollLoopSoleWriter ==
    /\ [][latest' # latest =>
            /\ loop_pc = "fetch" /\ loop_pc' \in {"broadcast", "sleep"}
            /\ latest' = _process_batch(all_data', cycle)
            /\ ~OperationStep]_vars
    /\ [][OperationStep =>
            UNCHANGED <<latest, loop_pc, cycle, fetch_list, fetch_k, all_data>>]_vars
    /\ [](loop_pc # "crashed")
    /\ [](BackendFailure =>
            /\ loop_pc = "fetch" => ENABLED (\E resp \in Responses : FetchStation(resp))
            /\ (loop_pc = "sleep" /\ cycle < MaxCycles) => ENABLED Wake)

\* C21 witness: an initialisation has failed and a question has been
\* answered with the failure, both during cycle 1, and the poll loop has
\* gone on to publish the Snapshot of cycle 2.
C21_Witness ==
    /\ \E i \in Insts : inst[i].error
    /\ "init_error" \in Range(out) /\ final = "empty"
    /\ q_elapsed = 0
    /\ latest.cycle = 2 /\ latest.readings # <<>>

====
